---- MODULE Spec2Model ----
(***************************************************************************)
(* Model of the submission controller of src/routes/+page.svelte: the      *)
(* component state, the handleSubmit request lifecycle, the rendered view   *)
(* that enables or disables the controls, and the browser event loop that   *)
(* orders user events, promise continuations and view updates.              *)
(***************************************************************************)
EXTENDS Integers, Sequences, FiniteSets, TLC

(* ------------------------------ bounds --------------------------------- *)

\* longest text the user types into the textarea
MaxLen == 4
\* number of handleSubmit invocations that can be alive at the same time
MaxCalls == 2

(* ------------------------- JavaScript values --------------------------- *)

Null == [t |-> "null"]
Undefined == [t |-> "undefined"]
Str(s) == [t |-> "string", v |-> s]
Bool(b) == [t |-> "boolean", v |-> b]

\* JavaScript truthiness, as used by `||`, `!`, `if (..)` and `{#if ..}`
Truthy(x) ==
    CASE x.t = "string" -> x.v # ""
      [] x.t = "boolean" -> x.v
      [] OTHER -> FALSE

\* a || b
Or(a, b) == IF Truthy(a) THEN a ELSE b

(* --------------------------- text of the input ------------------------- *)

CR == "\r"
LF == "\n"
SP == " "
Chars == {"A", "B", SP, CR, LF}
\* the characters String.prototype.trim removes (white space and line terminators)
WhiteSpace == {SP, CR, LF}

RECURSIVE SplitRec(_, _, _)
SplitRec(s, cur, acc) ==
    IF s = <<>> THEN Append(acc, cur)
    ELSE IF Len(s) >= 2 /\ s[1] = CR /\ s[2] = LF
         THEN SplitRec(SubSeq(s, 3, Len(s)), <<>>, Append(acc, cur))
    ELSE IF s[1] = LF
         THEN SplitRec(Tail(s), <<>>, Append(acc, cur))
    ELSE SplitRec(Tail(s), Append(cur, s[1]), acc)

\* isrcInput.split(/\r?\n/)
Split(s) == SplitRec(s, <<>>, <<>>)

RECURSIVE TrimStart(_)
TrimStart(l) ==
    IF l # <<>> /\ l[1] \in WhiteSpace THEN TrimStart(Tail(l)) ELSE l

RECURSIVE TrimEnd(_)
TrimEnd(l) ==
    IF l # <<>> /\ l[Len(l)] \in WhiteSpace
    THEN TrimEnd(SubSeq(l, 1, Len(l) - 1)) ELSE l

\* line.trim()
Trim(l) == TrimEnd(TrimStart(l))

MapNoTrim(lines) == lines

\* .map(line => line.trim())
MapTrim(lines) == [k \in 1..Len(lines) |-> Trim(lines[k])]

\* line => line.length > 0
NonEmpty(l) == Len(l) > 0

FilterNothing(lines) == lines

\* .filter(line => line.length > 0)
FilterNonEmpty(lines) == SelectSeq(lines, NonEmpty)

\* const isrcs = isrcInput.split(..).map(..).filter(..)
Clean(s) == FilterNonEmpty(MapTrim(Split(s)))

(* ------------------------------ messages ------------------------------- *)

ValidationMessage == Str("Please enter at least one ISRC.")
DefaultSuccess == Str("Success!")
UnexpectedMessage == Str("An unexpected error occurred.")
StatusMessage(status) == Str("Request failed with status " \o ToString(status))

(* ------------------------ the server and the network ------------------- *)

\* HTTP statuses the endpoint answers with
Statuses == {200, 500}
\* response.ok
IsOk(status) == status \in 200..299

ServerMessages == {Undefined, Str(""), Str("db down")}
ServerUrls == {Undefined, Str(""), Str("https://x/lib/42")}
ServerSuccess == {Undefined, Bool(FALSE), Bool(TRUE)}

\* what response.json() can resolve with: the JSON value null, or an object
\* (a missing field reads as undefined)
JsonObjects ==
    [t : {"object"}, success : ServerSuccess, message : ServerMessages,
     url : ServerUrls]
JsonValues == {Null} \cup JsonObjects

\* what the two awaited promises can reject with
FetchErrors == {[message |-> Str("Failed to fetch")], [message |-> Str("")]}
JsonErrors == {[message |-> Str("Unexpected token < in JSON at position 0")]}
\* reading a property of null
NullRead(prop) ==
    [message |-> Str("Cannot read properties of null (reading '" \o prop \o "')")]

\* JSON.stringify of one character of a string
EscapeChar(c) ==
    IF c = CR THEN <<"\\", "r">>
    ELSE IF c = LF THEN <<"\\", "n">>
    ELSE <<c>>

RECURSIVE Escape(_)
Escape(l) == IF l = <<>> THEN <<>> ELSE EscapeChar(l[1]) \o Escape(Tail(l))

\* JSON.stringify of a string
JsonString(l) == <<"\"">> \o Escape(l) \o <<"\"">>

RECURSIVE JoinStrings(_)
JoinStrings(lines) ==
    IF lines = <<>> THEN <<>>
    ELSE IF Len(lines) = 1 THEN JsonString(lines[1])
    ELSE JsonString(lines[1]) \o <<",">> \o JoinStrings(Tail(lines))

\* JSON.stringify(isrcs)
Stringify(lines) == <<"[">> \o JoinStrings(lines) \o <<"]">>

\* the request fetch is called with
Request(lines) ==
    [url |-> "/", method |-> "POST", contentType |-> "application/json",
     body |-> Stringify(lines)]

DispatchTwice(log, req) == Append(Append(log, req), req)

\* fetch(..) hands one request to the network
Dispatch(log, req) == Append(log, req)

(* ------------------------------- state --------------------------------- *)

VARIABLES isrcInput, isLoading, resultUrl, errorMessage, successMessage,
          view, pc, isrcs, response, data, error, sent

compVars == <<isrcInput, isLoading, resultUrl, errorMessage, successMessage>>
callVars == <<pc, isrcs, response, data, error, sent>>
vars == <<isrcInput, isLoading, resultUrl, errorMessage, successMessage,
          view, pc, isrcs, response, data, error, sent>>

Calls == 1..MaxCalls

\* the component's fields as one value
State ==
    [isrcInput |-> isrcInput, isLoading |-> isLoading, resultUrl |-> resultUrl,
     errorMessage |-> errorMessage, successMessage |-> successMessage]

SetState(st) ==
    /\ isrcInput' = st.isrcInput
    /\ isLoading' = st.isLoading
    /\ resultUrl' = st.resultUrl
    /\ errorMessage' = st.errorMessage
    /\ successMessage' = st.successMessage

\* what the template renders from a state
Render(st) ==
    [value |-> st.isrcInput, isLoading |-> st.isLoading,
     successMessage |-> st.successMessage, errorMessage |-> st.errorMessage,
     resultUrl |-> st.resultUrl]

TextareaNeverDisabled == FALSE

\* <textarea disabled={isLoading}> and <button disabled={isLoading}>
TextareaDisabled == view.isLoading

ButtonNeverDisabled == FALSE

ButtonDisabled == view.isLoading

\* an assignment has not been applied to the DOM yet
Dirty == view # Render(State)

TickResolvedAtOnce == TRUE

\* await tick(): the promise resolves once the pending assignments have
\* been applied to the DOM
TickResolved == ~Dirty

\* a promise continuation or a view update is queued: the event loop runs
\* these before it handles the next user event or network event
MicrotaskPending == Dirty \/ \E i \in Calls : pc[i] \in {"tick", "data", "catch"}

Init ==
    /\ isrcInput = <<>>
    /\ isLoading = FALSE
    /\ resultUrl = Null
    /\ errorMessage = Null
    /\ successMessage = Null
    /\ view = Render([isrcInput |-> <<>>, isLoading |-> FALSE, resultUrl |-> Null,
                      errorMessage |-> Null, successMessage |-> Null])
    /\ pc = [i \in Calls |-> "idle"]
    /\ isrcs = [i \in Calls |-> <<>>]
    /\ response = [i \in Calls |-> Undefined]
    /\ data = [i \in Calls |-> Undefined]
    /\ error = [i \in Calls |-> Undefined]
    /\ sent = [i \in Calls |-> <<>>]

(* --------------------------- handleSubmit ------------------------------ *)

BeginNotLoading(st) ==
    [st EXCEPT !.resultUrl = Null, !.errorMessage = Null, !.successMessage = Null]

BeginKeepsUrl(st) ==
    [st EXCEPT !.isLoading = TRUE, !.errorMessage = Null, !.successMessage = Null]

BeginKeepsError(st) ==
    [st EXCEPT !.isLoading = TRUE, !.resultUrl = Null, !.successMessage = Null]

\* isLoading = true; resultUrl = null; errorMessage = null; successMessage = null
Begin(st) ==
    [st EXCEPT !.isLoading = TRUE, !.resultUrl = Null, !.errorMessage = Null,
               !.successMessage = Null]

InvalidKeepsLoading(st) == [st EXCEPT !.errorMessage = ValidationMessage]

\* if (isrcs.length === 0) { errorMessage = ..; isLoading = false; return; }
Invalid(st) ==
    [st EXCEPT !.errorMessage = ValidationMessage, !.isLoading = FALSE]

FailedIgnoresStatus(status, d) == ~Truthy(d.success)

\* !response.ok || !data.success
Failed(status, d) == ~IsOk(status) \/ ~Truthy(d.success)

FailureMessageNoDefault(status, d) == d.message

\* errorMessage = data.message || `Request failed with status ${response.status}`
FailureMessage(status, d) == Or(d.message, StatusMessage(status))

OnFailureDropsUrl(st, status, d) ==
    [st EXCEPT !.errorMessage = FailureMessage(status, d)]

\* the failure branch
OnFailure(st, status, d) ==
    LET st1 == [st EXCEPT !.errorMessage = FailureMessage(status, d)]
    IN  IF Truthy(d.url) THEN [st1 EXCEPT !.resultUrl = d.url] ELSE st1

SuccessTextNoDefault(d) == d.message

\* successMessage = data.message || 'Success!'
SuccessText(d) == Or(d.message, DefaultSuccess)

\* the success branch
OnSuccess(st, d) ==
    [st EXCEPT !.successMessage = SuccessText(d), !.resultUrl = d.url,
               !.isrcInput = <<>>]

\* the statements of the try block after `await response.json()`; reading a
\* property of the JSON value null throws before anything is assigned
OnData(st, status, d) ==
    IF d.t = "null"
    THEN [threw |-> TRUE, st |-> st,
          error |-> IF IsOk(status) THEN NullRead("success") ELSE NullRead("message")]
    ELSE [threw |-> FALSE, error |-> Undefined,
          st |-> IF Failed(status, d) THEN OnFailure(st, status, d)
                 ELSE OnSuccess(st, d)]

CatchClearsInput(st, e) ==
    [st EXCEPT !.errorMessage = Or(e.message, UnexpectedMessage), !.isrcInput = <<>>]

CatchNoDefault(st, e) == [st EXCEPT !.errorMessage = e.message]

\* catch (error) { errorMessage = error.message || 'An unexpected error occurred.' }
Catch(st, e) == [st EXCEPT !.errorMessage = Or(e.message, UnexpectedMessage)]

NoFinally(st) == st

\* finally { isLoading = false }
Finally(st) == [st EXCEPT !.isLoading = FALSE]

(* ------------------------------ actions -------------------------------- *)

\* the user edits the textarea (bind:value): one keystroke
Type ==
    /\ ~MicrotaskPending
    /\ ~TextareaDisabled
    /\ \/ \E c \in Chars :
            /\ Len(isrcInput) < MaxLen
            /\ isrcInput' = Append(isrcInput, c)
       \/ /\ isrcInput # <<>>
          /\ isrcInput' = SubSeq(isrcInput, 1, Len(isrcInput) - 1)
    /\ view' = [view EXCEPT !.value = isrcInput']
    /\ UNCHANGED <<isLoading, resultUrl, errorMessage, successMessage>>
    /\ UNCHANGED callVars

\* the submit button can be activated
CanSubmit == ~MicrotaskPending /\ ~ButtonDisabled

\* the user submits the form: a new invocation of handleSubmit, with locals
\* of its own and no request issued yet, runs up to `await tick()`
Submit ==
    /\ CanSubmit
    /\ \E i \in Calls :
        /\ pc[i] = "idle"
        /\ \A j \in Calls : j < i => pc[j] # "idle"
        /\ pc' = [pc EXCEPT ![i] = "tick"]
        /\ isrcs' = [isrcs EXCEPT ![i] = <<>>]
        /\ response' = [response EXCEPT ![i] = Undefined]
        /\ data' = [data EXCEPT ![i] = Undefined]
        /\ error' = [error EXCEPT ![i] = Undefined]
        /\ sent' = [sent EXCEPT ![i] = <<>>]
    /\ SetState(Begin(State))
    /\ UNCHANGED view

\* the value of a local of invocation i once the invocation has returned
\* and its frame has been released
Released(local, i, empty) == IF pc[i] = "idle" THEN empty ELSE local[i]

\* the pending assignments are applied to the DOM; this ends the run of
\* queued continuations, and the frames of the invocations that returned
\* in it are released
Flush ==
    /\ Dirty
    /\ view' = Render(State)
    /\ isrcs' = [i \in Calls |-> Released(isrcs, i, <<>>)]
    /\ response' = [i \in Calls |-> Released(response, i, Undefined)]
    /\ data' = [i \in Calls |-> Released(data, i, Undefined)]
    /\ error' = [i \in Calls |-> Released(error, i, Undefined)]
    /\ sent' = [i \in Calls |-> Released(sent, i, <<>>)]
    /\ UNCHANGED compVars
    /\ UNCHANGED pc

\* tick() has resolved: clean the input, then fail validation or call fetch
AfterTick(i) ==
    /\ pc[i] = "tick"
    /\ TickResolved
    /\ LET cleaned == Clean(isrcInput)
       IN  IF Len(cleaned) = 0
           THEN /\ SetState(Invalid(State))
                /\ pc' = [pc EXCEPT ![i] = "idle"]
                /\ UNCHANGED <<isrcs, sent>>
           ELSE /\ pc' = [pc EXCEPT ![i] = "fetch"]
                /\ isrcs' = [isrcs EXCEPT ![i] = cleaned]
                /\ sent' = [sent EXCEPT ![i] = Dispatch(sent[i], Request(cleaned))]
                /\ UNCHANGED compVars
    /\ UNCHANGED <<view, response, data, error>>

\* the response arrives: fetch resolves and response.json() is called
FetchResolve(i) ==
    /\ pc[i] = "fetch"
    /\ ~MicrotaskPending
    /\ \E status \in Statuses : response' = [response EXCEPT ![i] = [status |-> status]]
    /\ pc' = [pc EXCEPT ![i] = "json"]
    /\ UNCHANGED compVars
    /\ UNCHANGED <<view, isrcs, data, error, sent>>

\* the request fails: fetch rejects
FetchReject(i) ==
    /\ pc[i] = "fetch"
    /\ ~MicrotaskPending
    /\ \E e \in FetchErrors : error' = [error EXCEPT ![i] = e]
    /\ pc' = [pc EXCEPT ![i] = "catch"]
    /\ UNCHANGED compVars
    /\ UNCHANGED <<view, isrcs, response, data, sent>>

\* the body is valid JSON: response.json() resolves
JsonResolve(i) ==
    /\ pc[i] = "json"
    /\ ~MicrotaskPending
    /\ \E d \in JsonValues : data' = [data EXCEPT ![i] = d]
    /\ pc' = [pc EXCEPT ![i] = "data"]
    /\ UNCHANGED compVars
    /\ UNCHANGED <<view, isrcs, response, error, sent>>

\* the body is not valid JSON: response.json() rejects
JsonReject(i) ==
    /\ pc[i] = "json"
    /\ ~MicrotaskPending
    /\ \E e \in JsonErrors : error' = [error EXCEPT ![i] = e]
    /\ pc' = [pc EXCEPT ![i] = "catch"]
    /\ UNCHANGED compVars
    /\ UNCHANGED <<view, isrcs, response, data, sent>>

\* the invocation returns; its locals keep their last values until the
\* frame is released
Return(i) ==
    /\ pc' = [pc EXCEPT ![i] = "idle"]
    /\ UNCHANGED <<isrcs, response, data, error, sent>>

\* the rest of the try block runs on the parsed body, then finally
HandleData(i) ==
    /\ pc[i] = "data"
    /\ LET r == OnData(State, response[i].status, data[i])
       IN  SetState(Finally(IF r.threw THEN Catch(r.st, r.error) ELSE r.st))
    /\ Return(i)
    /\ UNCHANGED view

\* an awaited promise rejected: catch, then finally
HandleError(i) ==
    /\ pc[i] = "catch"
    /\ SetState(Finally(Catch(State, error[i])))
    /\ Return(i)
    /\ UNCHANGED view

Next ==
    \/ Type
    \/ Submit
    \/ Flush
    \/ \E i \in Calls : AfterTick(i)
    \/ \E i \in Calls : FetchResolve(i)
    \/ \E i \in Calls : FetchReject(i)
    \/ \E i \in Calls : JsonReject(i)
    \/ \E i \in Calls : JsonResolve(i)
    \/ \E i \in Calls : HandleData(i)
    \/ \E i \in Calls : HandleError(i)

Spec == Init /\ [][Next]_vars

(* ------------------------- vocabulary of the claims -------------------- *)

\* the invocations of handleSubmit that have started and not returned
Active == {i \in Calls : pc[i] # "idle"}

\* the invocations whose request has been dispatched and is not handled yet
InFlight == {i \in Calls : pc[i] \in {"fetch", "json", "data", "catch"}}

\* invocation i returns in this step
Returns(i) == pc[i] # "idle" /\ pc'[i] = "idle"

\* invocation i handles a parsed body in this step
HandlesData(i) == pc[i] = "data" /\ pc'[i] = "idle"

\* invocation i handles a rejected fetch or a rejected response.json() in this step
HandlesError(i) == pc[i] = "catch" /\ pc'[i] = "idle"

\* the four display outcomes, of the component state or of the rendered view
OutcomeNone(o) ==
    ~o.isLoading /\ o.successMessage = Null /\ o.errorMessage = Null
OutcomeLoading(o) ==
    o.isLoading /\ o.successMessage = Null /\ o.errorMessage = Null
OutcomeSuccess(o) ==
    Truthy(o.successMessage) /\ o.errorMessage = Null /\ ~o.isLoading
OutcomeError(o) ==
    Truthy(o.errorMessage) /\ o.successMessage = Null /\ ~o.isLoading

\* every character of s is white space, so no line of s has content
OnlyWhiteSpace(s) == \A k \in 1..Len(s) : s[k] \in WhiteSpace

\* the lines of s, each named by the position of its first character: a
\* line starts at the beginning of s and after every LF
LineStarts(s) == {1} \cup {k + 1 : k \in {j \in 1..Len(s) : s[j] = LF}}

SetMin(S) == CHOOSE x \in S : \A y \in S : x <= y
SetMax(S) == CHOOSE x \in S : \A y \in S : x >= y

\* the position of the last character of the line that starts at a: the
\* line ends before the next LF, or before the CR of a CRLF
LineEnd(s, a) ==
    LET lfs == {k \in a..Len(s) : s[k] = LF}
        b == IF lfs = {} THEN Len(s) + 1 ELSE SetMin(lfs)
    IN  IF b <= Len(s) /\ b - 1 >= a /\ s[b - 1] = CR THEN b - 2 ELSE b - 1

\* the positions of the line that starts at a that are not white space
Content(s, a) == {k \in a..LineEnd(s, a) : s[k] \notin WhiteSpace}

\* the lines of s that are not empty after trimming
Kept(s) == {a \in LineStarts(s) : Content(s, a) # {}}

\* list holds the trimmed lines of s that are not empty, in the order of s
IsCleanedListOf(list, s) ==
    /\ Len(list) = Cardinality(Kept(s))
    /\ \A a \in Kept(s) :
          list[Cardinality({b \in Kept(s) : b <= a})] =
              SubSeq(s, SetMin(Content(s, a)), SetMax(Content(s, a)))

\* invocation i has received a response (a status)
HasResponse(i) == response[i] # Undefined

\* invocation i has a parsed body that is a JSON object
HasObject(i) == data[i].t = "object"

\* the response of invocation i indicates failure: non-2xx status, or
\* success false in its body
FailureIndicated(i) ==
    \/ ~IsOk(response[i].status)
    \/ (HasObject(i) /\ data[i].success = Bool(FALSE))

\* the body of invocation i carries a message / a url
MessageProvided(i) == HasObject(i) /\ Truthy(data[i].message)
UrlProvided(i) == HasObject(i) /\ Truthy(data[i].url)

\* the message of the exception caught by invocation i
CaughtMessage(i) ==
    IF pc[i] = "catch" THEN error[i].message
    ELSE IF IsOk(response[i].status) THEN NullRead("success").message
    ELSE NullRead("message").message

\* the array of strings a JSON text stands for, read character by character
RECURSIVE DecodeRec(_, _, _, _)
DecodeRec(s, inString, cur, acc) ==
    IF s = <<>> THEN acc
    ELSE IF ~inString
         THEN DecodeRec(Tail(s), s[1] = "\"", <<>>, acc)
    ELSE IF s[1] = "\""
         THEN DecodeRec(Tail(s), FALSE, <<>>, Append(acc, cur))
    ELSE IF s[1] = "\\"
         THEN DecodeRec(SubSeq(s, 3, Len(s)), TRUE,
                        Append(cur, IF s[2] = "r" THEN CR ELSE LF), acc)
    ELSE DecodeRec(Tail(s), TRUE, Append(cur, s[1]), acc)

DecodeArray(body) == DecodeRec(body, FALSE, <<>>, <<>>)

\* invocation i takes the success branch in this step
HandlesSuccess(i) ==
    /\ HandlesData(i)
    /\ IsOk(response[i].status)
    /\ HasObject(i)
    /\ Truthy(data[i].success)

(* -------------------------------- claims ------------------------------- *)

\* C1: in every reachable state exactly one of the four display outcomes
\* none, loading, success, error is active, in the component state and in
\* the rendered view: a message is never set while loading, and the success
\* and the error message are never set together.
C1_ExactlyOneOutcome ==
    \A o \in {State, view} :
        \/ OutcomeNone(o)
        \/ OutcomeLoading(o)
        \/ OutcomeSuccess(o)
        \/ OutcomeError(o)

\* the view shows the error outcome, with the message of a failure response
\* and its url, and neither the loading nor the success outcome
C1_Witness ==
    /\ OutcomeError(view)
    /\ view.errorMessage = Str("db down")
    /\ Truthy(view.resultUrl)

\* C2: at most one invocation of handleSubmit is alive at any time; while
\* one is alive no submit can be initiated, and whenever the event loop
\* can take a user event the button and the textarea are disabled.
C2_SingleFlight ==
    /\ Cardinality(Active) <= 1
    /\ Active # {} => ~CanSubmit
    /\ (Active # {} /\ ~MicrotaskPending) => (ButtonDisabled /\ TextareaDisabled)

\* a request is outstanding and the controls are rendered disabled
C2_Witness ==
    /\ pc[1] = "json"
    /\ ~MicrotaskPending
    /\ ButtonDisabled
    /\ TextareaDisabled

\* C3: a submit of an input made of white space only issues no request and
\* ends with the validation error, isLoading false and no result url; and
\* every request that is outstanding carries a non-empty cleaned list.
C3_EmptyNeverSent ==
    /\ [](\A i \in InFlight : isrcs[i] # <<>>)
    /\ [][\A i \in Calls :
            (pc[i] = "tick" /\ pc'[i] # "tick" /\ OnlyWhiteSpace(isrcInput)) =>
                /\ pc'[i] = "idle"
                /\ errorMessage' = ValidationMessage
                /\ successMessage' = Null
                /\ resultUrl' = Null
                /\ ~isLoading'
                /\ isrcs'[i] = <<>>
                /\ response'[i] = Undefined]_vars

\* the validation error after the submit of a non-empty blank input
C3_Witness ==
    /\ Active = {}
    /\ errorMessage = ValidationMessage
    /\ ~isLoading
    /\ isrcInput # <<>>
    /\ Dirty

\* C4: whenever an invocation returns, by whichever branch, isLoading is
\* false, and isLoading is false whenever no invocation is alive.
C4_LoadingCleared ==
    /\ [](Active = {} => ~isLoading)
    /\ [][\A i \in Calls : Returns(i) => ~isLoading']_vars

\* an attempt has just ended in the catch branch and the view still shows
\* the loading state it is about to leave
C4_Witness ==
    /\ Active = {}
    /\ ~isLoading
    /\ errorMessage = UnexpectedMessage
    /\ view.isLoading

\* C5: the cleaned list computed by a submit is the list of the lines of the
\* input (split at LF or CRLF), trimmed, without the lines that are empty
\* after trimming, in their original order, duplicates kept; the submit
\* fails validation exactly when there is no such line.
C5_CleanedList ==
    [][\A i \in Calls :
        (pc[i] = "tick" /\ pc'[i] # "tick") =>
            IF pc'[i] = "fetch"
            THEN IsCleanedListOf(isrcs'[i], isrcInput)
            ELSE Kept(isrcInput) = {}]_vars

\* a request for an input with a CRLF, whose two lines are not in sorted order
C5_Witness ==
    /\ pc[1] = "fetch"
    /\ isrcInput = <<"B", CR, LF, "A">>
    /\ isrcs[1] = << <<"B">>, <<"A">> >>

\* C6: when a 2xx response with success true is handled, the success
\* message becomes the message of the response, or 'Success!' when it has
\* none, the result url becomes the url of the response, the input becomes
\* empty, no error message is set and isLoading is false.
C6_Success ==
    [][\A i \in Calls :
        (/\ HandlesData(i)
         /\ IsOk(response[i].status)
         /\ HasObject(i)
         /\ data[i].success = Bool(TRUE)) =>
            /\ successMessage' =
                  IF MessageProvided(i) THEN data[i].message ELSE DefaultSuccess
            /\ resultUrl' = data[i].url
            /\ isrcInput' = <<>>
            /\ errorMessage' = Null
            /\ ~isLoading']_vars

\* a success response without message has just been handled: the default
\* message and the url are set and the input, still shown by the view, is
\* cleared
C6_Witness ==
    /\ pc[1] = "idle"
    /\ HasResponse(1) /\ IsOk(response[1].status)
    /\ HasObject(1) /\ data[1].success = Bool(TRUE)
    /\ data[1].message = Undefined
    /\ data[1].url = Str("https://x/lib/42")
    /\ successMessage = DefaultSuccess
    /\ resultUrl = Str("https://x/lib/42")
    /\ isrcInput = <<>>
    /\ view.value # <<>>

\* C7 as stated: for every response that indicates failure, whatever its
\* body, the error message becomes the message of the body, or the default
\* derived from the status when the body has none.
C7_Original ==
    [][\A i \in Calls :
        (/\ HandlesData(i) \/ HandlesError(i)
         /\ HasResponse(i)
         /\ FailureIndicated(i)) =>
            /\ errorMessage' =
                  IF MessageProvided(i) THEN data[i].message
                  ELSE StatusMessage(response[i].status)
            /\ successMessage' = Null
            /\ ~isLoading']_vars

\* C7 amended: for every response that indicates failure and whose body is
\* a JSON object, the error message becomes the message of the body, or the
\* default derived from the status when the body has none; when the body
\* of a failure response is not valid JSON or is null, the error message is
\* the message of the exception (or the generic default). In both cases no
\* success message is set and isLoading is false.
C7_FailureMessage ==
    [][\A i \in Calls :
        (/\ HandlesData(i) \/ HandlesError(i)
         /\ HasResponse(i)
         /\ FailureIndicated(i)) =>
            /\ errorMessage' =
                  IF HasObject(i)
                  THEN IF MessageProvided(i) THEN data[i].message
                       ELSE StatusMessage(response[i].status)
                  ELSE Or(CaughtMessage(i), UnexpectedMessage)
            /\ Truthy(errorMessage')
            /\ successMessage' = Null
            /\ ~isLoading']_vars

\* a 2xx response with success false and no message has just been handled
C7_Witness ==
    /\ pc[1] = "idle"
    /\ HasResponse(1) /\ response[1].status = 200
    /\ HasObject(1) /\ data[1].success = Bool(FALSE)
    /\ ~MessageProvided(1)
    /\ errorMessage = StatusMessage(200)
    /\ successMessage = Null
    /\ ~isLoading

\* C8: when a response with a non-2xx status is handled, whatever its body,
\* the state becomes error, the input is left as it is and no success
\* message is set.
C8_StatusDecides ==
    [][\A i \in Calls :
        (/\ HandlesData(i) \/ HandlesError(i)
         /\ HasResponse(i)
         /\ ~IsOk(response[i].status)) =>
            /\ Truthy(errorMessage')
            /\ successMessage' = Null
            /\ ~isLoading'
            /\ isrcInput' = isrcInput]_vars

\* a 500 response whose body says success true has just been handled
C8_Witness ==
    /\ pc[1] = "idle"
    /\ HasResponse(1) /\ response[1].status = 500
    /\ HasObject(1) /\ data[1].success = Bool(TRUE)
    /\ OutcomeError(State)
    /\ isrcInput # <<>>

\* C9: when a failure response is handled, the result url becomes the url
\* of its body if the body has one, together with the error message, and
\* stays null, so that no link is shown, if it has none.
C9_PartialUrl ==
    [][\A i \in Calls :
        (/\ HandlesData(i) \/ HandlesError(i)
         /\ HasResponse(i)
         /\ FailureIndicated(i)) =>
            /\ Truthy(errorMessage')
            /\ IF UrlProvided(i) THEN resultUrl' = data[i].url
               ELSE resultUrl' = Null]_vars

\* a failure response with a url has been handled and rendered: the view
\* shows the error message and the link
C9_Witness ==
    /\ Active = {}
    /\ ~Dirty
    /\ OutcomeError(view)
    /\ view.errorMessage = StatusMessage(500)
    /\ view.resultUrl = Str("https://x/lib/42")

\* C10: when a rejected fetch or a rejected response.json() is handled, the
\* error message becomes the message of the exception, or 'An unexpected
\* error occurred.' when it has none, and is not empty; the result url is
\* null, no success message is set and isLoading is false.
C10_TransportFailure ==
    [][\A i \in Calls :
        HandlesError(i) =>
            /\ errorMessage' =
                  IF Truthy(error[i].message) THEN error[i].message
                  ELSE UnexpectedMessage
            /\ Truthy(errorMessage')
            /\ resultUrl' = Null
            /\ successMessage' = Null
            /\ ~isLoading']_vars

\* the body of a 200 response was not valid JSON: the message of the
\* exception is set and there is no url
C10_Witness ==
    /\ pc[1] = "idle"
    /\ HasResponse(1) /\ response[1].status = 200
    /\ error[1] \in JsonErrors
    /\ errorMessage = error[1].message
    /\ resultUrl = Null
    /\ successMessage = Null
    /\ ~isLoading

\* C11: an invocation whose input has a non-empty line issues exactly one
\* request when it leaves `await tick()`, a POST to "/" whose JSON body
\* stands for the cleaned list, and an invocation without such a line issues
\* none; no other step of an invocation issues a request, so every
\* invocation with a request outstanding or just handled has issued one.
C11_OneRequest ==
    /\ [](\A i \in InFlight : Len(sent[i]) = 1)
    /\ [][\A i \in Calls :
            /\ (pc[i] = "idle" /\ pc'[i] = "tick") => sent'[i] = <<>>
            /\ (pc[i] = "tick" /\ pc'[i] # "tick") =>
                 IF Kept(isrcInput) # {}
                 THEN /\ Len(sent'[i]) = 1
                      /\ sent'[i][1].method = "POST"
                      /\ sent'[i][1].url = "/"
                      /\ IsCleanedListOf(DecodeArray(sent'[i][1].body), isrcInput)
                 ELSE sent'[i] = <<>>
            /\ Len(sent'[i]) > Len(sent[i]) => (pc[i] = "tick" /\ pc'[i] = "fetch")
            /\ pc[i] \in {"fetch", "json", "data", "catch"} => sent'[i] = sent[i]]_vars

\* a rejected fetch has just been handled: the invocation has issued its one
\* request and no second one
C11_Witness ==
    /\ pc[1] = "idle"
    /\ error[1] \in FetchErrors
    /\ Truthy(errorMessage)
    /\ Len(sent[1]) = 1
    /\ sent[1][1].body = <<"[", "\"", "A", "\\", "r", "B", "\"", "]">>

\* C12: a submit sets the result url, the error message and the success
\* message to null before anything else, they stay null until the
\* invocation returns, and what the invocation sets when it returns comes
\* from its own outcome only: no url and no success message after a
\* validation failure or a caught exception, and after a handled body no
\* url other than the url of that body.
C12_Overwrite ==
    /\ [](Active # {} =>
            (resultUrl = Null /\ errorMessage = Null /\ successMessage = Null))
    /\ [][\A i \in Calls :
            /\ (pc[i] = "idle" /\ pc'[i] = "tick") =>
                 /\ resultUrl' = Null
                 /\ errorMessage' = Null
                 /\ successMessage' = Null
                 /\ isLoading'
            /\ (Returns(i) /\ pc[i] \in {"tick", "catch"}) =>
                 /\ resultUrl' = Null
                 /\ successMessage' = Null
                 /\ Truthy(errorMessage')
            /\ (Returns(i) /\ pc[i] = "data") =>
                 /\ resultUrl' = Null \/ (HasObject(i) /\ resultUrl' = data[i].url)
                 /\ (errorMessage' = Null) # (successMessage' = Null)]_vars

\* a new submit has just reset the outcome while the view still shows the
\* success message and the link of the attempt before
C12_Witness ==
    /\ pc[1] = "tick"
    /\ resultUrl = Null
    /\ errorMessage = Null
    /\ successMessage = Null
    /\ OutcomeSuccess(view)
    /\ Truthy(view.resultUrl)

\* C13: in every state that shows an error, of whichever kind, once no
\* invocation is alive and the view is up to date, the button is enabled and
\* a submit can be taken; and an invocation whose input has a non-empty
\* line goes on to issue its request.
C13_ErrorNotAbsorbing ==
    /\ []((Truthy(errorMessage) /\ Active = {} /\ ~Dirty) =>
            (~ButtonDisabled /\ ENABLED Submit))
    /\ [][\A i \in Calls :
            (pc[i] = "tick" /\ pc'[i] # "tick" /\ Kept(isrcInput) # {}) =>
                (pc'[i] = "fetch" /\ Len(sent'[i]) = 1)]_vars

\* a new attempt with a non-empty line has been submitted from the
\* validation error, which the view still shows
C13_Witness ==
    /\ pc[1] = "tick"
    /\ view.errorMessage = ValidationMessage
    /\ ~view.isLoading
    /\ Kept(isrcInput) # {}

\* C14: a request is dispatched only from a state in which isLoading is
\* true, the three outcome fields are null, and the view already shows that
\* loading state: the controls disabled, no message and no link.
C14_LoadingBeforeDispatch ==
    [][\A i \in Calls :
        Len(sent'[i]) > Len(sent[i]) =>
            /\ isLoading
            /\ resultUrl = Null /\ errorMessage = Null /\ successMessage = Null
            /\ OutcomeLoading(view)
            /\ view.resultUrl = Null
            /\ ButtonDisabled /\ TextareaDisabled
            /\ isLoading']_vars

\* the request has just been dispatched and the view shows the loading state
C14_Witness ==
    /\ pc[1] = "fetch"
    /\ Len(sent[1]) = 1
    /\ isLoading
    /\ OutcomeLoading(view)
    /\ view.value = <<"A">>

\* C15: while an invocation waits for fetch or for response.json(), every
\* step that is not the settling of the promise it waits for leaves the
\* component state as it is, loading, with the controls disabled; in such a
\* state no user event and no view update can be taken; and after a
\* dispatch isLoading becomes false only in the step that handles the
\* parsed body or the rejection.
C15_NoTimeout ==
    /\ [][\A i \in Calls :
            (pc[i] \in {"fetch", "json"} /\ pc'[i] = pc[i]) =>
                /\ isLoading /\ isLoading'
                /\ UNCHANGED compVars
                /\ view'.isLoading]_vars
    /\ [][((\E i \in Calls : pc[i] \in {"fetch", "json", "data", "catch"})
            /\ isLoading /\ ~isLoading') =>
                \E i \in Calls : HandlesData(i) \/ HandlesError(i)]_vars
    /\ [](\A i \in Calls :
            (pc[i] \in {"fetch", "json"} /\ ~MicrotaskPending) =>
                (ButtonDisabled /\ TextareaDisabled
                 /\ ~ENABLED Type /\ ~ENABLED Submit /\ ~ENABLED Flush))

\* a request for two lines is outstanding and nothing is queued: only the
\* network can move on
C15_Witness ==
    /\ pc[1] = "fetch"
    /\ ~MicrotaskPending
    /\ isLoading
    /\ view.isLoading
    /\ isrcs[1] = << <<"A">>, <<"B">> >>

\* C16: the step that starts an invocation leaves the input as it is, and
\* from then until the invocation has returned the input changes only in
\* the step that takes the success branch, which empties it; so a
\* validation failure, a failure response and a caught exception leave the
\* input as it was when the form was submitted.
C16_InputKept ==
    [][/\ \A i \in Calls :
            (pc[i] = "idle" /\ pc'[i] = "tick") => isrcInput' = isrcInput
       /\ (Active # {} /\ isrcInput' # isrcInput) =>
            \E i \in Calls : HandlesSuccess(i) /\ isrcInput' = <<>>]_vars

\* a rejected fetch has just been handled and the two lines that were
\* submitted are still in the input
C16_Witness ==
    /\ pc[1] = "idle"
    /\ error[1] \in FetchErrors
    /\ errorMessage = Str("Failed to fetch")
    /\ isrcInput = <<"A", LF, "B">>
    /\ isrcs[1] = << <<"A">>, <<"B">> >>

\* C17: whenever an invocation has a request dispatched and not handled
\* yet, isLoading is true and the view shows it, so the textarea and the
\* button are disabled and no keystroke can be taken; and no step that
\* leaves the request unhandled makes isLoading false or changes the input.
C17_InFlightLoading ==
    /\ [](\A i \in InFlight :
            /\ isLoading
            /\ view.isLoading
            /\ TextareaDisabled /\ ButtonDisabled
            /\ ~ENABLED Type)
    /\ [][\A i \in Calls :
            (i \in InFlight /\ pc'[i] # "idle") =>
                (isLoading' /\ isrcInput' = isrcInput)]_vars

\* the body of the response has been parsed and is not handled yet: the
\* state and the view are still loading
C17_Witness ==
    /\ pc[1] = "data"
    /\ HasObject(1)
    /\ isLoading
    /\ view.isLoading
    /\ view.value = isrcInput
    /\ isrcInput # <<>>

====
